---- MODULE Spec2Model ----
(***************************************************************************)
(* Model of entt::poly (src/src/entt/poly/poly.hpp): the static virtual    *)
(* table factory poly_vtable<Concept> and the polymorphic holder           *)
(* poly<Concept>, instantiated with the concept Clazz of                   *)
(* src/test/entt/poly/poly.cpp.                                            *)
(*                                                                         *)
(* The storage cell entt::any (core/any.hpp) is not part of the sources at *)
(* hand: its operations (the Any... operators) follow the boundary         *)
(* contract of the specification, section 6, with an owned value kept in   *)
(* a box of its own (section 9).                                           *)
(***************************************************************************)
EXTENDS Integers, FiniteSets, Sequences, TLC

\* ------------------------------------------------------------------ bounds
NumHolders == 2
NumExt == 1
MaxVal == 2
NumThreads == 2

\* Number of operations of the concept Clazz (poly_impl<Clazz, Type>).
NumOps == 5

Slots == 1..NumHolders
Threads == 1..NumThreads
Values == 0..MaxVal
Members == 0..(NumOps - 1)

\* Concrete types the concept is paired with; "void" is the empty identity
\* (type_info{}).
Types == {"impl", "other"}
void == "void"

\* Addresses: 0 is the null pointer, 1..NumExt are variables owned by the
\* caller, the rest are boxes the storage cells allocate for owned values.
nullptr == 0
ExtAddr == 1..NumExt
BoxAddr == (NumExt + 1)..(NumExt + NumHolders + 1)
Addr == ExtAddr \cup BoxAddr

\* The caller's variables alternate between the two concrete types.
ExtType(x) == IF x % 2 = 1 THEN "impl" ELSE "other"

VARIABLES
    holder,         \* per slot: a poly object (alive, storage, vtable)
    memory,         \* per address: the object living there (live, type, value)
    statics,        \* per type: the function-local static of instance<Type>()
    thr,            \* per thread: its position in a call of instance<Type>(),
                    \* or in the body of a test of the holder
    ctorCount,      \* per type: how many times the static was initialized
    castFail,       \* an adapter unerased the storage to a type it does not hold
    doubleDestroy,  \* a value was destroyed after it had been destroyed
    op              \* the operation on holders that ran last

vars == <<holder, memory, statics, thr, ctorCount, castFail, doubleDestroy, op>>

\* ------------------------------------------------------- dispatch tables
\* Address of the static `vtable` of instance<Type>(): one static per Type.
VtableAddr(T) == IF T = "impl" THEN 101 ELSE 102
TypeOfTable(p) == CHOOSE T \in Types : VtableAddr(T) = p

\* An entry is the adapter for (Type, Candidate = get<Index>(poly_impl));
\* a value-initialized entry is a null function pointer.
NullEntry == [type |-> void, index |-> -1]
Entry(T, i) == [type |-> T, index |-> i]

\* type impl{}
EmptyTable == [i \in Members |-> NullEntry]

\* A fold that binds the last entry of the table to the selector of get.
fill_vtable_entryWrongSelector(impl, T, i) ==
    [impl EXCEPT ![i] = Entry(T, IF i = NumOps - 1 THEN 2 ELSE i)]

fill_vtable_entry(impl, T, i) == [impl EXCEPT ![i] = Entry(T, i)]

RECURSIVE FillFrom(_, _, _)
FillFrom(impl, T, i) ==
    IF i = NumOps THEN impl ELSE FillFrom(fill_vtable_entry(impl, T, i), T, i + 1)

fill_vtable(T) == FillFrom(EmptyTable, T, 0)

Complete(table, T) == \A i \in Members : table[i] = Entry(T, i)

\* instance<Type>() run by a single thread: the static is initialized on
\* the first call and its address returned.
InstanceStatics(st, T) ==
    IF st[T].guard = "done" THEN st
    ELSE [st EXCEPT ![T] = [guard |-> "done", vtable |-> fill_vtable(T)]]

InstanceCount(st, cnt, T) ==
    IF st[T].guard = "done" THEN cnt ELSE [cnt EXCEPT ![T] = @ + 1]

\* One static shared by every Type: instance() without its template parameter.
instanceShared(T) == VtableAddr("impl")

instance(T) == VtableAddr(T)

\* ----------------------------------------------------- call adapters
\* The operations of a concept, as the table types them (vtable_entry):
\* whether the erased receiver is const and how many arguments follow it.
\* Clazz (test/entt/poly/poly.cpp): incr, set, get, decr, mul.
ClazzOps ==
    << [const |-> FALSE, args |-> 0], [const |-> FALSE, args |-> 1],
       [const |-> TRUE, args |-> 0], [const |-> FALSE, args |-> 0],
       [const |-> TRUE, args |-> 1] >>

\* The selectors of poly_impl<Clazz, Type>: what the first parameter of
\* the selector is and how many parameters it takes, the receiver included.
ClazzImpl ==
    << [receiver |-> "mutable", params |-> 1], [receiver |-> "mutable", params |-> 2],
       [receiver |-> "const", params |-> 1], [receiver |-> "mutable", params |-> 1],
       [receiver |-> "const", params |-> 2] >>

\* Storage<Entity> (entity/poly_storage.hpp): type_info() const and
\* void(basic_registry<Entity> &, const Entity *, const std::size_t).
StorageOps == << [const |-> TRUE, args |-> 0], [const |-> FALSE, args |-> 3] >>

\* Its selectors: the static members<Type>::value_type(), which takes no
\* receiver, and members<Type>::remove(Type &self, ...).
StorageImpl ==
    << [receiver |-> "none", params |-> 0], [receiver |-> "mutable", params |-> 4] >>

\* std::is_invocable_r_v<Ret, decltype(Candidate), Args...>: the selector
\* can be called with the arguments of the operation alone.
is_invocable(sel, sig) == sel.params = sig.args

\* An adapter that unerases the storage for every selector.
EntryCallAlwaysUnerases(sel, sig, T, cell, args) ==
    [unerased |-> TRUE, receiver |-> cell.ptr, const |-> sig.const,
     args |-> args, fail |-> cell.type # T]

\* The lambda fill_vtable_entry<Type, Candidate> stores in an entry, called
\* on a storage cell: how it calls Candidate.
EntryCall(sel, sig, T, cell, args) ==
    IF is_invocable(sel, sig)
    THEN [unerased |-> FALSE, receiver |-> nullptr, const |-> FALSE,
          args |-> args, fail |-> FALSE]
    ELSE [unerased |-> TRUE, receiver |-> cell.ptr, const |-> sig.const,
          args |-> args, fail |-> cell.type # T]

\* ---------------------------------------------------------- storage cell
Dead == [live |-> FALSE, type |-> void, value |-> 0]

AnyEmpty == [mode |-> "empty", type |-> void, ptr |-> nullptr, dangling |-> FALSE]

FreeBoxes(mem) == {a \in BoxAddr : ~mem[a].live}
HasFree(mem) == FreeBoxes(mem) # {}
Alloc(mem) == CHOOSE a \in FreeBoxes(mem) : \A b \in FreeBoxes(mem) : a <= b

\* any{std::in_place_type<Type>, args...}
AnyInPlace(mem, T, v) ==
    LET a == Alloc(mem)
    IN  [cell |-> [mode |-> "own", type |-> T, ptr |-> a, dangling |-> FALSE],
         mem  |-> [mem EXCEPT ![a] = [live |-> TRUE, type |-> T, value |-> v]]]

\* any{std::reference_wrapper<Type>}
AnyAlias(mem, a) ==
    [mode |-> "alias", type |-> mem[a].type, ptr |-> a, dangling |-> FALSE]

\* any{const any &}: deep copy of an owned value, shared referent otherwise
AnyCopy(mem, c) ==
    IF c.mode = "own" THEN AnyInPlace(mem, c.type, mem[c.ptr].value)
    ELSE [cell |-> c, mem |-> mem]

\* any::ref()
AnyRef(c) ==
    IF c.mode = "empty" THEN AnyEmpty
    ELSE [mode |-> "alias", type |-> c.type, ptr |-> c.ptr, dangling |-> c.dangling]

\* ~any(): destroys an owned value, leaves an aliased one alone
AnyDestroy(mem, c) ==
    IF c.mode = "own" THEN [mem EXCEPT ![c.ptr] = Dead] ELSE mem

AnyDestroysTwice(mem, c) == c.mode = "own" /\ ~mem[c.ptr].live

AnyDestroyed(c) == IF c.mode = "own" THEN {c.ptr} ELSE {}

\* any::emplace<Type>(args...) when the construction of Type fails: the
\* current contents are destroyed first, the construction that follows
\* does not complete, and the cell is left without contents.
AnyEmplaceFails(mem, c) == [cell |-> AnyEmpty, mem |-> AnyDestroy(mem, c)]

\* any::type(), any::data()
AnyType(c) == c.type
AnyData(c) == c.ptr

\* ------------------------------------------------------------------ poly
NoHolder == [alive |-> FALSE, storage |-> AnyEmpty, vtable |-> nullptr]

Poly(c, vt) == [alive |-> TRUE, storage |-> c, vtable |-> vt]

\* A holder aliasing a value that has just been destroyed is left dangling.
MarkDangling(hs, gone) ==
    [k \in Slots |->
        IF hs[k].alive /\ hs[k].storage.mode = "alias" /\ hs[k].storage.ptr \in gone
        THEN [hs[k] EXCEPT !.storage.dangling = TRUE]
        ELSE hs[k]]

\* type(), data(), operator bool
type(h) == AnyType(holder[h].storage)
data(h) == AnyData(holder[h].storage)
bool(h) == ~(holder[h].vtable = nullptr)

\* A thread outside any call of instance<Type>().
Idle == [pc |-> "idle", type |-> void, next |-> 0, result |-> nullptr]

Init ==
    /\ holder = [h \in Slots |-> NoHolder]
    /\ memory = [a \in Addr |->
                    IF a \in ExtAddr
                    THEN [live |-> TRUE, type |-> ExtType(a), value |-> 0]
                    ELSE Dead]
    /\ statics = [T \in Types |-> [guard |-> "uninit", vtable |-> EmptyTable]]
    /\ thr = [t \in Threads |-> Idle]
    /\ ctorCount = [T \in Types |-> 0]
    /\ castFail = FALSE
    /\ doubleDestroy = FALSE
    /\ op = "none"

\* poly()
DefaultCtor(h) ==
    /\ ~holder[h].alive
    /\ holder' = [holder EXCEPT ![h] = Poly(AnyEmpty, nullptr)]
    /\ UNCHANGED <<memory, statics, thr, ctorCount, castFail, doubleDestroy>>
    /\ op' = "DefaultCtor"

\* An in-place constructor that builds the value and leaves the table
\* pointer value-initialized.
InPlaceCtorNoTable(h, T, v) ==
    /\ ~holder[h].alive
    /\ HasFree(memory)
    /\ LET s == AnyInPlace(memory, T, v)
       IN  /\ holder' = [holder EXCEPT ![h] = Poly(s.cell, nullptr)]
           /\ memory' = s.mem
    /\ UNCHANGED <<statics, ctorCount, thr, castFail, doubleDestroy>>
    /\ op' = "InPlaceCtor"

\* poly(std::in_place_type_t<Type>, Args &&...)
InPlaceCtor(h, T, v) ==
    /\ ~holder[h].alive
    /\ HasFree(memory)
    /\ LET s == AnyInPlace(memory, T, v)
       IN  /\ holder' = [holder EXCEPT ![h] = Poly(s.cell, instance(T))]
           /\ memory' = s.mem
    /\ statics' = InstanceStatics(statics, T)
    /\ ctorCount' = InstanceCount(statics, ctorCount, T)
    /\ UNCHANGED <<thr, castFail, doubleDestroy>>
    /\ op' = "InPlaceCtor"

\* A constructor that takes the referent over: storage{value} read as an
\* owned value at the address of the caller's variable.
RefCtorOwns(h, x) ==
    /\ ~holder[h].alive
    /\ memory[x].live
    /\ holder' = [holder EXCEPT ![h] =
                      Poly([mode |-> "own", type |-> memory[x].type, ptr |-> x,
                            dangling |-> FALSE], instance(memory[x].type))]
    /\ statics' = InstanceStatics(statics, memory[x].type)
    /\ ctorCount' = InstanceCount(statics, ctorCount, memory[x].type)
    /\ UNCHANGED <<memory, thr, castFail, doubleDestroy>>
    /\ op' = "RefCtor"

\* A constructor from a reference that stores a copy of the referent, as
\* poly(Type &&) does.
RefCtorCopies(h, x) ==
    /\ ~holder[h].alive
    /\ memory[x].live
    /\ HasFree(memory)
    /\ LET T == memory[x].type
           s == AnyInPlace(memory, T, memory[x].value)
       IN  /\ holder' = [holder EXCEPT ![h] = Poly(s.cell, instance(T))]
           /\ memory' = s.mem
           /\ statics' = InstanceStatics(statics, T)
           /\ ctorCount' = InstanceCount(statics, ctorCount, T)
    /\ UNCHANGED <<thr, castFail, doubleDestroy>>
    /\ op' = "RefCtor"

\* poly(std::reference_wrapper<Type>)
RefCtor(h, x) ==
    /\ ~holder[h].alive
    /\ memory[x].live
    /\ holder' = [holder EXCEPT ![h] = Poly(AnyAlias(memory, x), instance(memory[x].type))]
    /\ statics' = InstanceStatics(statics, memory[x].type)
    /\ ctorCount' = InstanceCount(statics, ctorCount, memory[x].type)
    /\ UNCHANGED <<memory, thr, castFail, doubleDestroy>>
    /\ op' = "RefCtor"

\* A constructor from a value that keeps a reference to the caller's
\* variable, as poly(std::reference_wrapper<Type>) does.
ValueCtorAliases(h, x) ==
    /\ ~holder[h].alive
    /\ memory[x].live
    /\ HasFree(memory)
    /\ holder' = [holder EXCEPT ![h] = Poly(AnyAlias(memory, x), instance(memory[x].type))]
    /\ statics' = InstanceStatics(statics, memory[x].type)
    /\ ctorCount' = InstanceCount(statics, ctorCount, memory[x].type)
    /\ UNCHANGED <<memory, thr, castFail, doubleDestroy>>
    /\ op' = "ValueCtor"

\* poly(Type &&): delegates to the in-place constructor with a copy of value
ValueCtor(h, x) ==
    /\ ~holder[h].alive
    /\ memory[x].live
    /\ HasFree(memory)
    /\ LET T == memory[x].type
           s == AnyInPlace(memory, T, memory[x].value)
       IN  /\ holder' = [holder EXCEPT ![h] = Poly(s.cell, instance(T))]
           /\ memory' = s.mem
           /\ statics' = InstanceStatics(statics, T)
           /\ ctorCount' = InstanceCount(statics, ctorCount, T)
    /\ UNCHANGED <<thr, castFail, doubleDestroy>>
    /\ op' = "ValueCtor"

\* A copy that shares the value of the source instead of duplicating it.
CopyCtorShares(h, g) ==
    /\ ~holder[h].alive
    /\ holder[g].alive
    /\ HasFree(memory)
    /\ holder' = [holder EXCEPT ![h] = Poly(AnyRef(holder[g].storage), holder[g].vtable)]
    /\ UNCHANGED <<memory, statics, thr, ctorCount, castFail, doubleDestroy>>
    /\ op' = "CopyCtor"

\* A copy that duplicates the value whether the source owns it or aliases it.
CopyCtorDeep(h, g) ==
    /\ ~holder[h].alive
    /\ holder[g].alive
    /\ HasFree(memory)
    /\ LET c == holder[g].storage
           s == IF c.mode = "empty" \/ c.dangling THEN [cell |-> c, mem |-> memory]
                ELSE AnyInPlace(memory, c.type, memory[c.ptr].value)
       IN  /\ holder' = [holder EXCEPT ![h] = Poly(s.cell, holder[g].vtable)]
           /\ memory' = s.mem
    /\ UNCHANGED <<statics, thr, ctorCount, castFail, doubleDestroy>>
    /\ op' = "CopyCtor"

\* poly(const poly &) = default
CopyCtor(h, g) ==
    /\ ~holder[h].alive
    /\ holder[g].alive
    /\ HasFree(memory)
    /\ LET s == AnyCopy(memory, holder[g].storage)
       IN  /\ holder' = [holder EXCEPT ![h] = Poly(s.cell, holder[g].vtable)]
           /\ memory' = s.mem
    /\ UNCHANGED <<statics, thr, ctorCount, castFail, doubleDestroy>>
    /\ op' = "CopyCtor"

\* A swap that exchanges the storage cells and forgets the table pointers.
SwapStorageOnly(hs, a, b) ==
    [hs EXCEPT ![a] = [@ EXCEPT !.storage = hs[b].storage],
               ![b] = [@ EXCEPT !.storage = hs[a].storage]]

\* swap(poly &, poly &) on a map of holders
SwapIn(hs, a, b) ==
    [hs EXCEPT ![a] = [@ EXCEPT !.storage = hs[b].storage, !.vtable = hs[b].vtable],
               ![b] = [@ EXCEPT !.storage = hs[a].storage, !.vtable = hs[a].vtable]]

\* A swap without a temporary: lhs takes the members of rhs, and rhs then
\* takes them back from lhs.
SwapNoTemp(h, g) ==
    /\ holder[h].alive
    /\ holder[g].alive
    /\ holder' = [holder EXCEPT ![h] = [@ EXCEPT !.storage = holder[g].storage,
                                                 !.vtable = holder[g].vtable]]
    /\ UNCHANGED <<memory, statics, thr, ctorCount, castFail, doubleDestroy>>
    /\ op' = "Swap"

\* friend void swap(poly &lhs, poly &rhs)
Swap(h, g) ==
    /\ holder[h].alive
    /\ holder[g].alive
    /\ holder' = SwapIn(holder, h, g)
    /\ UNCHANGED <<memory, statics, thr, ctorCount, castFail, doubleDestroy>>
    /\ op' = "Swap"

\* A move constructor that takes the members of the source and leaves them
\* in the source as well.
MoveCtorKeepsSource(h, g) ==
    /\ ~holder[h].alive
    /\ holder[g].alive
    /\ holder' = [holder EXCEPT ![h] = Poly(holder[g].storage, holder[g].vtable)]
    /\ UNCHANGED <<memory, statics, thr, ctorCount, castFail, doubleDestroy>>
    /\ op' = "MoveCtor"

\* poly(poly &&other): poly{} and then swap(*this, other)
MoveCtor(h, g) ==
    /\ ~holder[h].alive
    /\ holder[g].alive
    /\ holder' = SwapIn([holder EXCEPT ![h] = Poly(AnyEmpty, nullptr)], h, g)
    /\ UNCHANGED <<memory, statics, thr, ctorCount, castFail, doubleDestroy>>
    /\ op' = "MoveCtor"

\* The body of operator=(poly other): swap(other, *this), then the
\* parameter, holding the previous content of *this, is destroyed.
AssignBody(hs, mem, h, other) ==
    LET old == hs[h].storage
        hs2 == [hs EXCEPT ![h] = Poly(other.storage, other.vtable)]
    IN  [holder |-> MarkDangling(hs2, AnyDestroyed(old)),
         memory |-> AnyDestroy(mem, old),
         twice  |-> AnyDestroysTwice(mem, old)]

\* A copy assignment whose parameter takes the members of b away, as the
\* parameter of a move assignment does.
CopyAssignSteals(h, g) ==
    /\ holder[h].alive
    /\ holder[g].alive
    /\ HasFree(memory)
    /\ LET other == holder[g]
           hs1 == [holder EXCEPT ![g] = Poly(AnyEmpty, nullptr)]
           r == AssignBody(hs1, memory, h, other)
       IN  /\ holder' = r.holder
           /\ memory' = r.memory
           /\ doubleDestroy' = (doubleDestroy \/ r.twice)
    /\ UNCHANGED <<statics, thr, ctorCount, castFail>>
    /\ op' = "CopyAssign"

\* a = b: the parameter of operator= is copy-constructed from b
CopyAssign(h, g) ==
    /\ holder[h].alive
    /\ holder[g].alive
    /\ HasFree(memory)
    /\ LET s == AnyCopy(memory, holder[g].storage)
           r == AssignBody(holder, s.mem, h, Poly(s.cell, holder[g].vtable))
       IN  /\ holder' = r.holder
           /\ memory' = r.memory
           /\ doubleDestroy' = (doubleDestroy \/ r.twice)
    /\ UNCHANGED <<statics, thr, ctorCount, castFail>>
    /\ op' = "CopyAssign"

\* A move assignment whose parameter is a memberwise copy of b, b keeping
\* its members.
MoveAssignShallow(h, g) ==
    /\ holder[h].alive
    /\ holder[g].alive
    /\ LET r == AssignBody(holder, memory, h, holder[g])
       IN  /\ holder' = r.holder
           /\ memory' = r.memory
           /\ doubleDestroy' = (doubleDestroy \/ r.twice)
    /\ UNCHANGED <<statics, thr, ctorCount, castFail>>
    /\ op' = "MoveAssign"

\* a = std::move(b): the parameter of operator= is move-constructed from b
MoveAssign(h, g) ==
    /\ holder[h].alive
    /\ holder[g].alive
    /\ LET other == holder[g]
           hs1 == [holder EXCEPT ![g] = Poly(AnyEmpty, nullptr)]
           r == AssignBody(hs1, memory, h, other)
       IN  /\ holder' = r.holder
           /\ memory' = r.memory
           /\ doubleDestroy' = (doubleDestroy \/ r.twice)
    /\ UNCHANGED <<statics, thr, ctorCount, castFail>>
    /\ op' = "MoveAssign"

\* a = Type{...}: the parameter of operator= is built by poly(Type &&)
ValueAssign(h, T, v) ==
    /\ holder[h].alive
    /\ HasFree(memory)
    /\ LET s == AnyInPlace(memory, T, v)
           r == AssignBody(holder, s.mem, h, Poly(s.cell, instance(T)))
       IN  /\ holder' = r.holder
           /\ memory' = r.memory
           /\ doubleDestroy' = (doubleDestroy \/ r.twice)
    /\ statics' = InstanceStatics(statics, T)
    /\ ctorCount' = InstanceCount(statics, ctorCount, T)
    /\ UNCHANGED <<thr, castFail>>
    /\ op' = "ValueAssign"

\* An emplace that replaces the content and leaves the table pointer as it was.
EmplaceNoRebind(h, T, v) ==
    /\ holder[h].alive
    /\ LET old == holder[h].storage
           mem1 == AnyDestroy(memory, old)
           s == AnyInPlace(mem1, T, v)
           hs2 == [holder EXCEPT ![h] = Poly(s.cell, holder[h].vtable)]
       IN  /\ HasFree(mem1)
           /\ holder' = MarkDangling(hs2, AnyDestroyed(old))
           /\ memory' = s.mem
           /\ doubleDestroy' = (doubleDestroy \/ AnyDestroysTwice(memory, old))
    /\ statics' = InstanceStatics(statics, T)
    /\ ctorCount' = InstanceCount(statics, ctorCount, T)
    /\ UNCHANGED <<thr, castFail>>
    /\ op' = "Emplace"

\* emplace<Type>(args...): storage.emplace<Type>(args...) destroys the
\* current content and constructs the new one, then the table is rebound.
Emplace(h, T, v) ==
    /\ holder[h].alive
    /\ LET old == holder[h].storage
           mem1 == AnyDestroy(memory, old)
           s == AnyInPlace(mem1, T, v)
           hs2 == [holder EXCEPT ![h] = Poly(s.cell, instance(T))]
       IN  /\ HasFree(mem1)
           /\ holder' = MarkDangling(hs2, AnyDestroyed(old))
           /\ memory' = s.mem
           /\ doubleDestroy' = (doubleDestroy \/ AnyDestroysTwice(memory, old))
    /\ statics' = InstanceStatics(statics, T)
    /\ ctorCount' = InstanceCount(statics, ctorCount, T)
    /\ UNCHANGED <<thr, castFail>>
    /\ op' = "Emplace"

\* A ref() that returns a copy of the holder.
RefCopies(h, g) ==
    /\ ~holder[h].alive
    /\ holder[g].alive
    /\ HasFree(memory)
    /\ LET s == AnyCopy(memory, holder[g].storage)
       IN  /\ holder' = [holder EXCEPT ![h] = Poly(s.cell, holder[g].vtable)]
           /\ memory' = s.mem
    /\ UNCHANGED <<statics, thr, ctorCount, castFail, doubleDestroy>>
    /\ op' = "Ref"

\* A ref() that hands out the storage cell itself, memberwise.
RefShallow(h, g) ==
    /\ ~holder[h].alive
    /\ holder[g].alive
    /\ holder' = [holder EXCEPT ![h] = Poly(holder[g].storage, holder[g].vtable)]
    /\ UNCHANGED <<memory, statics, thr, ctorCount, castFail, doubleDestroy>>
    /\ op' = "Ref"

\* ref(): other.storage = storage.ref(); other.vtable = vtable
Ref(h, g) ==
    /\ ~holder[h].alive
    /\ holder[g].alive
    /\ holder' = [holder EXCEPT ![h] = Poly(AnyRef(holder[g].storage), holder[g].vtable)]
    /\ UNCHANGED <<memory, statics, thr, ctorCount, castFail, doubleDestroy>>
    /\ op' = "Ref"

\* ~poly(): destroys the storage cell
Dtor(h) ==
    /\ holder[h].alive
    /\ LET old == holder[h].storage
       IN  /\ holder' = MarkDangling([holder EXCEPT ![h] = NoHolder], AnyDestroyed(old))
           /\ memory' = AnyDestroy(memory, old)
           /\ doubleDestroy' = (doubleDestroy \/ AnyDestroysTwice(memory, old))
    /\ UNCHANGED <<statics, thr, ctorCount, castFail>>
    /\ op' = "Dtor"

\* ------------------------------------------------------ concept interface
\* poly_impl<Clazz, Type>: the selectors of the concept, applied to the
\* value of the receiver: incr, set, get, decr (set(get()-1)), mul (v * get()).
Candidate(i, val, arg) ==
    CASE i = 0 -> [value |-> val + 1, ret |-> 0]
      [] i = 1 -> [value |-> arg, ret |-> 0]
      [] i = 2 -> [value |-> val, ret |-> val]
      [] i = 3 -> [value |-> val - 1, ret |-> 0]
      [] i = 4 -> [value |-> val, ret |-> arg * val]

\* The arguments a call of member i is made with: set(int) and mul(int) take
\* one, the other members none.
Args(i) == IF i \in {1, 4} THEN Values ELSE {0}

\* The entry the holder's table pointer leads to.
VtableEntry(h, i) == statics[TypeOfTable(holder[h].vtable)].vtable[i]

\* poly_call<Member>(self, args...): what entry Member of the table bound
\* to holder h computes on the value the storage cell leads to.
poly_call(h, i, arg) ==
    LET e == VtableEntry(h, i)
    IN  Candidate(e.index, memory[holder[h].storage.ptr].value, arg)

\* poly_base::invoke<Member>: std::get<Member>(*poly.vtable)(poly.storage, args...)
\* and the adapter: std::invoke(Candidate, any_cast<Type &>(any), args...)
Invoke(h, i, arg) ==
    /\ holder[h].alive
    /\ holder[h].vtable # nullptr
    /\ ~holder[h].storage.dangling
    /\ LET e == VtableEntry(h, i)
           c == holder[h].storage
       IN  IF e.type # c.type \/ ~memory[c.ptr].live
           THEN /\ castFail' = TRUE
                /\ UNCHANGED memory
           ELSE LET r == Candidate(e.index, memory[c.ptr].value, arg)
                IN  /\ r.value \in Values
                    /\ memory' = [memory EXCEPT ![c.ptr].value = r.value]
                    /\ UNCHANGED castFail
    /\ UNCHANGED <<holder, statics, thr, ctorCount, doubleDestroy>>
    /\ op' = "Invoke"

\* The caller writes one of its own variables directly.
ExtWrite(x, v) ==
    /\ memory[x].live
    /\ memory[x].value # v
    /\ memory' = [memory EXCEPT ![x].value = v]
    /\ UNCHANGED <<holder, statics, thr, ctorCount, castFail, doubleDestroy>>
    /\ op' = "ExtWrite"

Next ==
    \/ \E h \in Slots : DefaultCtor(h)
    \/ \E h \in Slots, T \in Types, v \in Values : InPlaceCtor(h, T, v)
    \/ \E h \in Slots, x \in ExtAddr : RefCtor(h, x)
    \/ \E h \in Slots, x \in ExtAddr : ValueCtor(h, x)
    \/ \E h, g \in Slots : CopyCtor(h, g)
    \/ \E h, g \in Slots : MoveCtor(h, g)
    \/ \E h, g \in Slots : CopyAssign(h, g)
    \/ \E h, g \in Slots : MoveAssign(h, g)
    \/ \E h \in Slots, T \in Types, v \in Values : ValueAssign(h, T, v)
    \/ \E h \in Slots, T \in Types, v \in Values : Emplace(h, T, v)
    \/ \E h, g \in Slots : Ref(h, g)
    \/ \E h, g \in Slots : Swap(h, g)
    \/ \E h \in Slots : Dtor(h)
    \/ \E h \in Slots, i \in Members : \E arg \in Args(i) : Invoke(h, i, arg)
    \/ \E x \in ExtAddr, v \in Values : ExtWrite(x, v)

\* emplace<Type>(args...) with a constructor of Type that throws: the
\* exception leaves storage.emplace<Type>(args...) and then emplace itself,
\* which has no handler; the statement that rebinds the table is not reached.
EmplaceThrows(h, T) ==
    /\ holder[h].alive
    /\ LET old == holder[h].storage
           s == AnyEmplaceFails(memory, old)
           hs2 == [holder EXCEPT ![h] = Poly(s.cell, holder[h].vtable)]
       IN  /\ holder' = MarkDangling(hs2, AnyDestroyed(old))
           /\ memory' = s.mem
           /\ doubleDestroy' = (doubleDestroy \/ AnyDestroysTwice(memory, old))
    /\ UNCHANGED <<statics, ctorCount, thr, castFail>>
    /\ op' = "EmplaceThrows"

NextThrow ==
    \/ Next
    \/ \E h \in Slots, T \in Types : EmplaceThrows(h, T)

\* The holder used with types whose construction may fail.
SpecThrow == Init /\ [][NextThrow]_vars

\* ------------------------------------------------ the tests of the holder
\* TEST(Poly, Owned) and TEST(Poly, Alias) run the same statements, the
\* first on a holder that owns an impl built from impl{}, the second on a
\* holder that aliases the variable `instance`. Test body 1 (Owned) uses
\* holder 1, test body 2 (Alias) holder 2 and the caller's variable 1.
\* thr[t].next is how far body t has followed Script, thr[t].result what
\* its last call returned.
Tests == {1, 2}

Script == << <<1, 1>>, <<0, 0>>, <<2, 0>>, <<4, 3>>, <<3, 0>>, <<2, 0>>, <<4, 3>> >>
OffScript == Len(Script) + 1

\* The arguments the tests call member i with: mul is called with 3.
TestArgs(i) == IF i = 1 THEN Values ELSE IF i = 4 THEN Values \cup {3} ELSE {0}

Advance(k, i, arg) ==
    IF k < Len(Script) /\ Script[k + 1] = <<i, arg>> THEN k + 1 ELSE OffScript

\* entt::poly<Clazz> poly{impl{}} in body 1; impl instance{} and
\* entt::poly<Clazz> poly{std::ref(instance)} in body 2.
TestBegin(t) ==
    /\ thr[t].pc = "idle"
    /\ ~holder[t].alive
    /\ IF t = 1
       THEN LET s == AnyInPlace(memory, "impl", 0)
            IN  /\ HasFree(memory)
                /\ holder' = [holder EXCEPT ![t] = Poly(s.cell, instance("impl"))]
                /\ memory' = s.mem
       ELSE LET mem0 == [memory EXCEPT ![1] = [live |-> TRUE, type |-> "impl", value |-> 0]]
            IN  /\ holder' = [holder EXCEPT ![t] = Poly(AnyAlias(mem0, 1), instance("impl"))]
                /\ memory' = mem0
    /\ statics' = InstanceStatics(statics, "impl")
    /\ ctorCount' = InstanceCount(statics, ctorCount, "impl")
    /\ thr' = [thr EXCEPT ![t] = [pc |-> "test", type |-> "impl", next |-> 0, result |-> 0]]
    /\ UNCHANGED <<castFail, doubleDestroy>>
    /\ op' = "TestBegin"

\* One call in body t: poly.incr(), poly.set(v), poly.get(), poly.decr()
\* or poly.mul(v).
TestStep(t, i, arg) ==
    /\ thr[t].pc = "test"
    /\ LET r == poly_call(t, i, arg)
       IN  /\ r.value \in Values
           /\ memory' = [memory EXCEPT ![data(t)].value = r.value]
           /\ thr' = [thr EXCEPT ![t].result = r.ret, ![t].next = Advance(@, i, arg)]
    /\ castFail' = (castFail \/ VtableEntry(t, i).type # type(t))
    /\ UNCHANGED <<holder, statics, ctorCount, doubleDestroy>>
    /\ op' = "TestStep"

\* Body t returns: its holder is destroyed.
TestEnd(t) ==
    /\ thr[t].pc = "test"
    /\ memory' = AnyDestroy(memory, holder[t].storage)
    /\ doubleDestroy' = (doubleDestroy \/ AnyDestroysTwice(memory, holder[t].storage))
    /\ holder' = [holder EXCEPT ![t] = NoHolder]
    /\ thr' = [thr EXCEPT ![t] = Idle]
    /\ UNCHANGED <<statics, ctorCount, castFail>>
    /\ op' = "TestEnd"

NextTests ==
    \/ \E t \in Tests : TestBegin(t)
    \/ \E t \in Tests, i \in Members : \E arg \in TestArgs(i) : TestStep(t, i, arg)
    \/ \E t \in Tests : TestEnd(t)

SpecTests == Init /\ [][NextTests]_vars

\* ------------------------------------------- instance<Type>(), threaded
\* static const auto vtable = fill_vtable<Type>(...): a function-local
\* static. The first thread to reach the declaration initializes it; a
\* thread reaching it meanwhile waits; afterwards the declaration is skipped.
\* fill_vtable builds its result in the static's storage (the returned
\* local is elided), one fill_vtable_entry after the other.

\* A thread calls instance<Type>().
Call(t, T) ==
    /\ thr[t].pc = "idle"
    /\ thr' = [thr EXCEPT ![t] = [pc |-> "guard", type |-> T, next |-> 0, result |-> nullptr]]
    /\ UNCHANGED <<holder, memory, statics, ctorCount, castFail, doubleDestroy>>
    /\ UNCHANGED op

\* A guard that is a plain flag, set before the static is filled: a thread
\* finding it set skips the declaration, whether or not the filling is over.
GuardNoWait(t) ==
    /\ thr[t].pc = "guard"
    /\ LET T == thr[t].type
       IN  \/ /\ statics[T].guard # "uninit"
              /\ thr' = [thr EXCEPT ![t].pc = "return"]
              /\ UNCHANGED statics
           \/ /\ statics[T].guard = "uninit"
              /\ statics' = [statics EXCEPT ![T].guard = "busy"]
              /\ thr' = [thr EXCEPT ![t].pc = "fill"]
    /\ UNCHANGED <<holder, memory, ctorCount, castFail, doubleDestroy>>
    /\ UNCHANGED op

\* The thread reaches the declaration of the static.
Guard(t) ==
    /\ thr[t].pc = "guard"
    /\ LET T == thr[t].type
       IN  \/ /\ statics[T].guard = "done"
              /\ thr' = [thr EXCEPT ![t].pc = "return"]
              /\ UNCHANGED statics
           \/ /\ statics[T].guard = "uninit"
              /\ statics' = [statics EXCEPT ![T].guard = "busy"]
              /\ thr' = [thr EXCEPT ![t].pc = "fill"]
    /\ UNCHANGED <<holder, memory, ctorCount, castFail, doubleDestroy>>
    /\ UNCHANGED op

\* One fill_vtable_entry<Type, Candidate>(std::get<Index>(impl)) of the fold.
Fill(t) ==
    /\ thr[t].pc = "fill"
    /\ thr[t].next < NumOps
    /\ LET T == thr[t].type
       IN  statics' = [statics EXCEPT
                          ![T].vtable = fill_vtable_entry(@, T, thr[t].next)]
    /\ thr' = [thr EXCEPT ![t].next = @ + 1]
    /\ UNCHANGED <<holder, memory, ctorCount, castFail, doubleDestroy>>
    /\ UNCHANGED op

\* fill_vtable returns: the initialization of the static is complete.
Initialized(t) ==
    /\ thr[t].pc = "fill"
    /\ thr[t].next = NumOps
    /\ statics' = [statics EXCEPT ![thr[t].type].guard = "done"]
    /\ ctorCount' = [ctorCount EXCEPT ![thr[t].type] = @ + 1]
    /\ thr' = [thr EXCEPT ![t].pc = "return", ![t].next = 0]
    /\ UNCHANGED <<holder, memory, castFail, doubleDestroy>>
    /\ UNCHANGED op

\* return &vtable
Return(t) ==
    /\ thr[t].pc = "return"
    /\ thr' = [thr EXCEPT ![t].pc = "got", ![t].result = instance(thr[t].type)]
    /\ UNCHANGED <<holder, memory, statics, ctorCount, castFail, doubleDestroy>>
    /\ UNCHANGED op

\* The requester is done with the pointer it received.
Drop(t) ==
    /\ thr[t].pc = "got"
    /\ thr' = [thr EXCEPT ![t] = Idle]
    /\ UNCHANGED <<holder, memory, statics, ctorCount, castFail, doubleDestroy>>
    /\ UNCHANGED op

NextInstance ==
    \/ \E t \in Threads, T \in Types : Call(t, T)
    \/ \E t \in Threads : Guard(t)
    \/ \E t \in Threads : Fill(t)
    \/ \E t \in Threads : Initialized(t)
    \/ \E t \in Threads : Return(t)
    \/ \E t \in Threads : Drop(t)

SpecInstance == Init /\ [][NextInstance]_vars

Spec == Init /\ [][Next]_vars
\* ------------------------------------------------------------------ claims
NonEmpty(h) == holder[h].alive /\ holder[h].storage.mode # "empty"
Owning(h) == holder[h].alive /\ holder[h].storage.mode = "own"
Aliasing(h) == holder[h].alive /\ holder[h].storage.mode = "alias"

C2_BuiltOnceAndComplete ==
    /\ \A T \in Types :
          /\ ctorCount[T] <= 1
          /\ (statics[T].guard = "done") <=> (ctorCount[T] = 1)
          /\ Cardinality({t \in Threads : thr[t].pc = "fill" /\ thr[t].type = T}) <= 1
    /\ \A t \in Threads :
          thr[t].pc \in {"return", "got"} =>
              /\ ctorCount[thr[t].type] = 1
              /\ Complete(statics[thr[t].type].vtable, thr[t].type)
    /\ \A t \in Threads :
          thr[t].pc = "got" => thr[t].result = VtableAddr(thr[t].type)

\* C2 witness: one thread is halfway through filling the table of a type
\* while another thread, requesting the same table, is at the declaration.
C2_Witness ==
    \E t, u \in Threads :
        /\ t # u
        /\ thr[t].pc = "fill" /\ thr[t].next \in 1..(NumOps - 1)
        /\ thr[u].pc = "guard" /\ thr[u].type = thr[t].type
        /\ ~Complete(statics[thr[t].type].vtable, thr[t].type)

\* What get() returns through holder h.
Get(h) == Candidate(2, memory[data(h)].value, 0).ret

\* The value a call of member i with arg through holder h leaves behind.
Written(h, i, arg) == Candidate(i, memory[data(h)].value, arg).value

\* C3: two non-empty holders hold the same table pointer exactly when they
\* hold the same concrete type; a holder that keeps its type keeps its
\* table pointer, and a table that has been built is never written again.
C3_SamePointerIffSameType ==
    \A h, g \in Slots :
        NonEmpty(h) /\ NonEmpty(g) =>
            ((holder[h].vtable = holder[g].vtable) <=> (type(h) = type(g)))

C3_AddressStable ==
    /\ \A h \in Slots :
          NonEmpty(h) /\ NonEmpty(h)' /\ type(h)' = type(h) =>
              holder'[h].vtable = holder[h].vtable
    /\ \A T \in Types : statics[T].guard = "done" => statics'[T] = statics[T]

C3_TableIdentity == [](C3_SamePointerIffSameType) /\ [][C3_AddressStable]_vars

\* C3 witness: a holder that owns a value of type impl and a holder just
\* constructed aliasing the caller's variable of type impl hold the same
\* table pointer.
C3_Witness ==
    \E a, b \in Slots :
        /\ op = "RefCtor"
        /\ Owning(a) /\ Aliasing(b) /\ data(b) \in ExtAddr
        /\ type(a) = "impl" /\ type(b) = "impl"
        /\ holder[a].vtable = holder[b].vtable
        /\ holder[a].vtable = VtableAddr("impl")

\* The state a move from g into h leaves: g empty, h as g was.
MovePost(h, g) ==
    /\ holder'[g].alive
    /\ ~bool(g)'
    /\ type(g)' = void
    /\ data(g)' = nullptr
    /\ holder'[h].alive
    /\ type(h)' = type(g)
    /\ holder'[h].vtable = holder[g].vtable
    /\ holder'[h].storage.mode = holder[g].storage.mode
    /\ Aliasing(g) => data(h)' = data(g)
    /\ Owning(g) => /\ memory'[data(h)'] = memory[data(g)]
                    /\ memory'[data(h)'].live

C5_CopyIsSeparate ==
    [][/\ \A h, g \in Slots :
             h # g /\ Owning(g) /\ (CopyCtor(h, g) \/ CopyAssign(h, g)) =>
                 /\ Owning(h)'
                 /\ data(h)' # data(g)
                 /\ memory'[data(h)'] = memory[data(g)]
                 /\ memory'[data(g)] = memory[data(g)]
                 /\ holder'[g].storage = holder[g].storage
                 /\ holder'[g].vtable = holder[g].vtable
       /\ \A h \in Slots, g \in Slots :
             h # g /\ Owning(h) /\ Owning(g) /\ memory'[data(g)] # memory[data(g)] =>
                 \A i \in Members : \A arg \in Args(i) : ~Invoke(h, i, arg)]_vars

\* C5 witness: a concept operation has just run while two holders own
\* values of the same type at different addresses, and the values differ.
C5_Witness ==
    \E a, b \in Slots :
        /\ op = "Invoke"
        /\ Owning(a) /\ Owning(b)
        /\ type(a) = type(b)
        /\ data(a) # data(b)
        /\ Get(a) = 0 /\ Get(b) = 1

\* C6: the copy of an aliasing holder aliases the same referent (data()
\* equal, nothing copied), and a concept operation through an aliasing
\* holder is read back through every holder aliasing that referent and
\* in the referent itself.
C6_CopySharesReferent ==
    [][/\ \A h, g \in Slots :
             Aliasing(g) /\ CopyCtor(h, g) =>
                 /\ Aliasing(h)'
                 /\ data(h)' = data(g)
                 /\ type(h)' = type(g)
                 /\ memory' = memory
       /\ \A h \in Slots, i \in Members :
             \A arg \in Args(i) :
                 Aliasing(h) /\ Invoke(h, i, arg) =>
                     /\ memory'[data(h)].value = Written(h, i, arg)
                     /\ \A g \in Slots :
                           Aliasing(g) /\ data(g) = data(h) =>
                               Get(g)' = Written(h, i, arg)]_vars

\* C6 witness: a copy constructor has just run and both holders alias the
\* caller's variable, whose value is no longer the initial one.
C6_Witness ==
    \E a, b \in Slots :
        /\ op = "CopyCtor"
        /\ a # b
        /\ Aliasing(a) /\ Aliasing(b)
        /\ data(a) \in ExtAddr /\ data(b) = data(a)
        /\ Get(a) = 1 /\ Get(b) = 1

\* C7: ref() on a non-empty holder g yields a non-empty aliasing holder
\* with g's type, table pointer and data(), and leaves g and every value
\* untouched; a concept operation through an aliasing holder is read back
\* through the holder that owns the referent.
C7_RefAliases ==
    [][/\ \A h, g \in Slots :
             NonEmpty(g) /\ Ref(h, g) =>
                 /\ Aliasing(h)'
                 /\ bool(h)'
                 /\ type(h)' = type(g)
                 /\ holder'[h].vtable = holder[g].vtable
                 /\ data(h)' = data(g)
                 /\ holder'[g] = holder[g]
                 /\ memory' = memory
       /\ \A h \in Slots, i \in Members :
             \A arg \in Args(i) :
                 Aliasing(h) /\ Invoke(h, i, arg) =>
                     \A g \in Slots :
                         Owning(g) /\ data(g) = data(h) =>
                             /\ Get(g)' = Written(h, i, arg)
                             /\ holder'[g] = holder[g]]_vars

\* C7 witness: ref() has just run on a holder that owns a value: the new
\* holder aliases that live value, with the owner's type and table pointer.
C7_Witness ==
    \E a, r \in Slots :
        /\ op = "Ref"
        /\ Owning(a) /\ Aliasing(r)
        /\ ~holder[r].storage.dangling
        /\ data(r) = data(a)
        /\ type(r) = type(a)
        /\ holder[r].vtable = holder[a].vtable

\* Every entry of the table a non-empty holder points to is the adapter of
\* the type the holder holds, and no adapter has run on another type.
C8_DispatchesToHeldType ==
    /\ ~castFail
    /\ \A h \in Slots :
          holder[h].alive /\ holder[h].vtable # nullptr =>
              \A i \in Members : VtableEntry(h, i) = Entry(type(h), i)

C8_EmplaceStep ==
    \A h \in Slots, T \in Types, v \in Values :
        Emplace(h, T, v) =>
            /\ Owning(h)'
            /\ type(h)' = T
            /\ holder'[h].vtable = VtableAddr(T)
            /\ \A i \in Members : VtableEntry(h, i)' = Entry(T, i)
            /\ memory'[data(h)'] = [live |-> TRUE, type |-> T, value |-> v]

\* C8: emplace<T>(v) leaves the holder owning a value of type T built
\* from v, with type() T and the table of T, each entry of which is the
\* adapter of T; in every state the entries a holder invokes are the
\* adapters of the type it holds.
C8_EmplaceRebinds == [](C8_DispatchesToHeldType) /\ [][C8_EmplaceStep]_vars

\* C8 witness: emplace has just left a holder owning a value of type other
\* with the table of other, after the table of impl had been bound.
C8_Witness ==
    \E h \in Slots :
        /\ op = "Emplace"
        /\ Owning(h) /\ type(h) = "other"
        /\ holder[h].vtable = VtableAddr("other")
        /\ Get(h) = 1
        /\ statics["impl"].guard = "done"

Owners(a) == {h \in Slots : Owning(h) /\ data(h) = a}

\* C9: no value is destroyed twice, every live owned value has exactly
\* one owning holder, no holder owns a destroyed value, and once every
\* holder is destroyed no owned value is left alive.
C9_DestroyedExactlyOnce ==
    /\ ~doubleDestroy
    /\ \A a \in BoxAddr :
          Cardinality(Owners(a)) = (IF memory[a].live THEN 1 ELSE 0)
    /\ \A h \in Slots : Owning(h) => data(h) \in BoxAddr
    /\ (\A h \in Slots : ~holder[h].alive) => \A a \in BoxAddr : ~memory[a].live

\* C9 witness: the last holder has just been destroyed, tables of both
\* types had been bound, and no owned value is alive.
C9_Witness ==
    /\ op = "Dtor"
    /\ \A h \in Slots : ~holder[h].alive
    /\ \A T \in Types : statics[T].guard = "done"
    /\ \A a \in BoxAddr : ~memory[a].live

\* An operation that destroys holder h, moves from it, assigns to it,
\* swaps it or emplaces into it.
Disposes(h) ==
    \/ Dtor(h)
    \/ \E g \in Slots : MoveCtor(g, h) \/ MoveAssign(g, h) \/ MoveAssign(h, g)
    \/ \E g \in Slots : CopyAssign(h, g) \/ Swap(h, g) \/ Swap(g, h)
    \/ \E T \in Types, v \in Values : Emplace(h, T, v) \/ ValueAssign(h, T, v)

\* C10: the caller's variables stay alive whatever the holders do; the
\* aliasing constructor copies nothing and refers to the variable itself;
\* destroying, moving from, assigning to, swapping or emplacing into a
\* holder that aliases a variable leaves the variable as it was.
C10_AliasedValueStays ==
    /\ [](\A x \in ExtAddr : memory[x].live /\ memory[x].type = ExtType(x))
    /\ [][/\ \A h \in Slots, x \in ExtAddr :
                RefCtor(h, x) =>
                    /\ Aliasing(h)'
                    /\ data(h)' = x
                    /\ memory' = memory
          /\ \A h \in Slots :
                Aliasing(h) /\ data(h) \in ExtAddr /\ Disposes(h) =>
                    memory'[data(h)] = memory[data(h)]]_vars

\* C10 witness: a holder aliasing the caller's variable has just been moved
\* from: it is empty, the target aliases the variable, and the variable is
\* alive with the value written before.
C10_Witness ==
    \E a, b \in Slots :
        /\ op = "MoveCtor"
        /\ holder[a].alive /\ ~bool(a)
        /\ Aliasing(b) /\ data(b) \in ExtAddr
        /\ memory[data(b)].live /\ memory[data(b)].value = 1

C11_ReadsAgree ==
    \A h \in Slots :
        Aliasing(h) /\ data(h) \in ExtAddr =>
            poly_call(h, 2, 0).ret = memory[data(h)].value

C11_AliasStep ==
    /\ \A h \in Slots, x \in ExtAddr :
          RefCtor(h, x) =>
              /\ data(h)' = x
              /\ poly_call(h, 2, 0)'.ret = memory[x].value
    /\ \A h \in Slots, i \in Members :
          \A arg \in Args(i) :
              Aliasing(h) /\ data(h) \in ExtAddr /\ Invoke(h, i, arg) =>
                  /\ memory'[data(h)].value =
                         Candidate(i, memory[data(h)].value, arg).value
                  /\ poly_call(h, 2, 0)'.ret = memory'[data(h)].value
    /\ \A h \in Slots, x \in ExtAddr, v \in Values :
          Aliasing(h) /\ data(h) = x /\ ExtWrite(x, v) =>
              poly_call(h, 2, 0)'.ret = v

\* C11: a holder constructed from a reference to the caller's variable x
\* has data() equal to the address of x, every concept operation through
\* the holder is applied to x itself, and get() through the holder returns
\* the value read from x directly, before and after every operation.
C11_AliasShowsThrough == [](C11_ReadsAgree) /\ [][C11_AliasStep]_vars

\* C11 witness: set, incr or decr has just run through a holder aliasing
\* the caller's variable, and the variable and get() both read 2.
C11_Witness ==
    \E h \in Slots :
        /\ op = "Invoke"
        /\ Aliasing(h) /\ data(h) \in ExtAddr
        /\ memory[data(h)].value = 2
        /\ poly_call(h, 2, 0).ret = 2

C12_OwnedStep ==
    /\ \A h \in Slots, x \in ExtAddr :
          ValueCtor(h, x) =>
              /\ Owning(h)'
              /\ data(h)' # x
              /\ memory'[data(h)'].value = memory[x].value
              /\ memory'[x] = memory[x]
    /\ \A h \in Slots, i \in Members :
          \A arg \in Args(i) :
              Owning(h) /\ Invoke(h, i, arg) =>
                  \A x \in ExtAddr : memory'[x] = memory[x]
    /\ \A x \in ExtAddr, v \in Values :
          ExtWrite(x, v) =>
              \A h \in Slots :
                  Owning(h) =>
                      \A i \in Members : \A arg \in Args(i) :
                          poly_call(h, i, arg)' = poly_call(h, i, arg)

\* C12: a holder constructed from a value owns a copy of it at another
\* address; no concept operation through an owning holder changes a
\* variable of the caller, and no write of a caller's variable changes
\* what any operation through an owning holder returns or leaves behind.
C12_OwnedIsIndependent == [][C12_OwnedStep]_vars

\* C12 witness: a concept operation has just run through a holder owning
\* a value of the caller's type; the holder reads 2 while the caller's
\* variable, written meanwhile, reads 1.
C12_Witness ==
    \E h \in Slots, x \in ExtAddr :
        /\ op = "Invoke"
        /\ Owning(h) /\ type(h) = ExtType(x)
        /\ poly_call(h, 2, 0).ret = 2
        /\ memory[x].value = 1

C13_ObserversAgree ==
    \A h \in Slots :
        holder[h].alive =>
            /\ bool(h) <=> (holder[h].vtable # nullptr)
            /\ bool(h) <=> (type(h) # void)
            /\ bool(h) <=> (data(h) # nullptr)

C13_CtorStep ==
    /\ \A h \in Slots :
          DefaultCtor(h) =>
              ~bool(h)' /\ type(h)' = void /\ data(h)' = nullptr
    /\ \A h \in Slots, T \in Types, v \in Values :
          InPlaceCtor(h, T, v) =>
              bool(h)' /\ type(h)' = T /\ data(h)' # nullptr
    /\ \A h \in Slots, x \in ExtAddr :
          ValueCtor(h, x) =>
              bool(h)' /\ type(h)' = ExtType(x) /\ data(h)' # nullptr

C14_TwiceRestores ==
    \A a, b \in Slots :
        holder[a].alive /\ holder[b].alive =>
            SwapIn(SwapIn(holder, a, b), a, b) = holder

C14_SwapStep ==
    \A a, b \in Slots :
        Swap(a, b) =>
            /\ holder'[a].storage = holder[b].storage
            /\ holder'[a].vtable = holder[b].vtable
            /\ holder'[b].storage = holder[a].storage
            /\ holder'[b].vtable = holder[a].vtable
            /\ holder'[a].alive /\ holder'[b].alive
            /\ \A k \in Slots \ {a, b} : holder'[k] = holder[k]
            /\ memory' = memory
            /\ statics' = statics /\ ctorCount' = ctorCount
            /\ doubleDestroy' = doubleDestroy
            /\ SwapIn(holder', a, b) = holder

\* C14: swap(a, b) leaves a with the storage cell and table pointer b had
\* and b with those a had; no value is constructed, copied or destroyed,
\* no other holder and no variable of the caller changes, and a second
\* swap(a, b) gives both holders their original states back.
C14_SwapExchanges == [](C14_TwiceRestores) /\ [][C14_SwapStep]_vars

\* C14 witness: a swap has just run between a holder that owns a value and
\* a holder that aliases the caller's variable; the two read different
\* values.
C14_Witness ==
    \E a, b \in Slots :
        /\ op = "Swap"
        /\ a < b
        /\ Aliasing(a) /\ data(a) \in ExtAddr
        /\ Owning(b)
        /\ memory[data(a)].value = 1 /\ memory[data(b)].value = 2

\* C15: when the construction of Type fails during emplace<Type>(args),
\* the exception reaches the caller and the holder is left valid: its table
\* pointer is null exactly when its storage cell is empty, and a non-null
\* table pointer is the table of the type the cell holds.
C15_ValidAfterFailure ==
    [][\A h \in Slots, T \in Types :
          EmplaceThrows(h, T) =>
              /\ op' = "EmplaceThrows"
              /\ (holder'[h].vtable = nullptr) <=> (holder'[h].storage.mode = "empty")
              /\ holder'[h].vtable # nullptr =>
                    /\ holder'[h].storage.type \in Types
                    /\ holder'[h].vtable = VtableAddr(holder'[h].storage.type)]_vars

Running(t) == thr[t].pc = "test"

\* What the reads of Script return: get() after set(1) and incr(), mul(3)
\* after it, get() after decr(), mul(3) after it.
C16_ScriptResults ==
    \A t \in Tests :
        Running(t) =>
            /\ thr[t].next = 3 => thr[t].result = 2
            /\ thr[t].next = 4 => thr[t].result = 6
            /\ thr[t].next = 6 => thr[t].result = 1
            /\ thr[t].next = 7 => thr[t].result = 3

\* The owning and the aliasing holder agree: at the same place of Script
\* they have returned the same result and hold the same value, and with
\* the same value every call returns the same and leaves the same behind.
C16_SameResults ==
    Running(1) /\ Running(2) =>
        /\ thr[1].next = thr[2].next /\ thr[1].next # OffScript =>
              /\ thr[1].result = thr[2].result
              /\ memory[data(1)].value = memory[data(2)].value
        /\ memory[data(1)].value = memory[data(2)].value =>
              \A i \in Members : \A arg \in TestArgs(i) :
                  poly_call(1, i, arg) = poly_call(2, i, arg)

\* The variable the aliasing holder was built over reads what get() returns.
C16_VariableShows ==
    Running(2) =>
        /\ data(2) = 1
        /\ memory[1].value = poly_call(2, 2, 0).ret

\* C16: from the value 0, set(1), incr(), get(), mul(3), decr(), get(),
\* mul(3) return 2, 6, 1 and 3 for the four reads, through an owning holder
\* and through an aliasing holder alike; over the same value the two return
\* the same result for every call, and the variable the aliasing holder
\* was built over reads what get() returns after each step.
C16_SameScenario == C16_ScriptResults /\ C16_SameResults /\ C16_VariableShows

\* C16 witness: both test bodies have run the whole of Script.
C16_Witness ==
    /\ op = "TestStep"
    /\ \A t \in Tests :
          Running(t) /\ thr[t].next = Len(Script) /\ thr[t].result = 3
    /\ Owning(1) /\ Aliasing(2)
    /\ memory[1].value = 1

\* The argument lists an operation of the given signature is called with.
ArgLists(sig) == [1..sig.args -> Values]

\* How entry k of the table of the type holder h holds calls its selector.
C17_CallsSelector(h, impl, ops) ==
    \A k \in DOMAIN impl : \A args \in ArgLists(ops[k]) :
        LET call == EntryCall(impl[k], ops[k], VtableEntry(h, 0).type,
                              holder[h].storage, args)
        IN  /\ call.args = args
            /\ impl[k].receiver = "none" =>
                  ~call.unerased /\ call.receiver = nullptr
            /\ impl[k].receiver # "none" =>
                  /\ call.unerased /\ ~call.fail
                  /\ call.receiver = data(h)
                  /\ call.const = ops[k].const

C17_Dispatch ==
    \A h \in Slots :
        holder[h].alive /\ bool(h) =>
            /\ \A i \in Members :
                  /\ VtableEntry(h, i) = statics[type(h)].vtable[i]
                  /\ VtableEntry(h, i) = Entry(type(h), i)
                  /\ ~holder[h].storage.dangling =>
                        \A arg \in Args(i) :
                            poly_call(h, i, arg) =
                                Candidate(i, memory[data(h)].value, arg)
            /\ C17_CallsSelector(h, ClazzImpl, ClazzOps)
            /\ C17_CallsSelector(h, StorageImpl, StorageOps)

C17_InvokeStep ==
    \A h \in Slots, i \in Members :
        \A arg \in Args(i) :
            Invoke(h, i, arg) =>
                /\ ~castFail'
                /\ memory'[data(h)].value = Candidate(i, memory[data(h)].value, arg).value
                /\ \A a \in Addr \ {data(h)} : memory'[a] = memory[a]
                /\ ClazzOps[i + 1].const => memory' = memory

CellOf(h) ==
    <<holder[h].alive, holder[h].storage.mode, holder[h].storage.type,
      holder[h].storage.ptr, holder[h].vtable>>

C18_AssignStep ==
    \A a, b \in Slots :
        CopyAssign(a, b) =>
            /\ a # b =>
                  /\ CellOf(b)' = CellOf(b)
                  /\ Owning(b) => memory'[data(b)] = memory[data(b)]
            /\ holder'[a].alive
            /\ holder'[a].vtable = holder[b].vtable
            /\ holder'[a].storage.mode = holder[b].storage.mode
            /\ type(a)' = type(b)
            /\ Owning(b) =>
                  /\ data(a)' # data(b)
                  /\ data(a)' \in FreeBoxes(memory)
                  /\ memory'[data(a)'] = memory[data(b)]
            /\ Aliasing(b) => data(a)' = data(b)
            /\ ~NonEmpty(b) => data(a)' = nullptr /\ ~bool(a)'
            /\ \A x \in Addr :
                  (memory[x].live /\ ~memory'[x].live) <=> (Owning(a) /\ x = data(a))
            /\ doubleDestroy' = doubleDestroy
            /\ \A x \in ExtAddr : memory'[x] = memory[x]

\* C18: a = b leaves the cell and table pointer of b and the value b owns
\* as they were and leaves a as a copy of b: a value of its own equal to
\* b's when b owns, b's referent when b aliases, empty when b is empty, in
\* each case with b's table pointer; the value a owned before is destroyed
\* once and nothing else is; a = a leaves a with the type, table pointer
\* and held value it had.
C18_CopyAssignment == [](~doubleDestroy) /\ [][C18_AssignStep]_vars

\* C18 witness: a copy assignment has just run between two holders: both
\* own a value of type other, equal and at different addresses.
C18_Witness ==
    \E a, b \in Slots :
        /\ op = "CopyAssign"
        /\ a # b
        /\ Owning(a) /\ Owning(b)
        /\ type(a) = "other" /\ type(b) = "other"
        /\ data(a) # data(b)
        /\ memory[data(a)].value = 2 /\ memory[data(b)].value = 2

\* Holder r is a view of the value holder a owns.
RefOf(r, a) ==
    /\ Owning(a)
    /\ Aliasing(r)
    /\ ~holder[r].storage.dangling
    /\ data(r) = data(a)

C19_ViewIsLive ==
    \A a, r \in Slots : RefOf(r, a) => memory[data(r)].live

C19_ViewStep ==
    \A a, r \in Slots :
        /\ Owning(a) /\ Ref(r, a) =>
              /\ RefOf(r, a)'
              /\ memory' = memory
        /\ RefOf(r, a) /\ ~Disposes(a) =>
              /\ Owning(a)'
              /\ data(a)' = data(a)
              /\ memory'[data(a)].live
              /\ ~Disposes(r) => RefOf(r, a)'
        /\ RefOf(r, a) /\ Disposes(r) /\ ~Disposes(a) =>
              /\ memory'[data(a)] = memory[data(a)]
              /\ holder'[a] = holder[a]
        /\ RefOf(r, a) /\ Dtor(a) => ~memory'[data(a)].live

\* C19: a holder r returned by a.ref() on an owning holder a has the data()
\* of a and refers to a live value, and stays so over every step that
\* does not emplace into, assign to, move from, swap or destroy a;
\* destroying, assigning to or emplacing into r leaves the value and a as
\* they were, and the value is destroyed with a whether or not r is alive.
C19_RefStaysLive == [](C19_ViewIsLive) /\ [][C19_ViewStep]_vars

\* C19 witness: a concept operation has just run while one holder owns a
\* value and the other is a view of it; the value reads 2.
C19_Witness ==
    \E a, r \in Slots :
        /\ op = "Invoke"
        /\ RefOf(r, a)
        /\ data(r) \in BoxAddr
        /\ poly_call(r, 2, 0).ret = 2
        /\ poly_call(a, 2, 0).ret = 2
====
